---- MODULE Spec2Model ----
(***************************************************************************)
(* Model of floem's application-level event coordinator,                   *)
(* src/src/app_handle.rs (struct ApplicationHandle).                       *)
(*                                                                         *)
(* The coordinator is single-threaded.  handle_update_event is modelled    *)
(* step by step (one step for the drain, one per event of the drained      *)
(* batch) because the callbacks it runs (view_fn, destroy) push to the     *)
(* queue it drained; while a pass is running (pc = "update") no other      *)
(* handler is enabled.  The other handlers are one action each.            *)
(***************************************************************************)
EXTENDS Integers, Sequences, FiniteSets, TLC

\* ----------------------------------------------------------------- domains
\* Bound: the number of AppUpdateEvents pushed in a behaviour.
MaxEvents == 2

EventIds == 1..MaxEvents

\* winit's WindowId: the identifiers the platform hands out.
WindowIds == {1, 2}

\* action::TimerToken.
TimerTokens == {1, 2}

\* std::time::Instant: the readings of the monotonic clock.
Instants == 0..2

\* cfg(target_os = ...): the three builds the source distinguishes.
Platforms == {"linux", "macos", "other"}

\* winit's ModifiersState, cut down to two values.
ModifiersStates == {0, 1}

VARIABLES
    platform,           \* target_os of the build
    window_handles,     \* ApplicationHandle.window_handles: WindowId -> WindowHandle
    timers,             \* ApplicationHandle.timers: TimerToken -> Timer
    control_flow,       \* the event loop's ControlFlow, as last set
    APP_UPDATE_EVENTS,  \* the thread-local queue of AppUpdateEvent
    events,             \* handle_update_event's local `events`, what is left of it
    pc,                 \* "loop": between handlers; "update": inside handle_update_event;
                        \* "idle": inside the drain loop of idle
    now,                \* the monotonic clock (Instant::now())
    next_id,            \* history: identity of the next AppUpdateEvent pushed
    creates,            \* history: number of successful window constructions
    closes_live,        \* history: number of close_window calls that found a live entry
    closed,             \* history: the window ids close_window has found live
    registered,         \* history: identities of the timers request_timer inserted
    replaced,           \* history: identities of the timers an insert displaced
    invoked,            \* history: timer identity -> number of times its action ran
    applied,            \* history: event identity -> number of times its match arm ran
    pass,               \* history of the current (or last) handle_update_event pass
    destroys,           \* history: number of destroy calls made
    last,               \* the handler step that produced this state
    calls,              \* the calls that step made on its collaborators, in order
    EXT_EVENT_QUEUE,    \* EXT_EVENT_HANDLER.queue: the mutex-guarded trigger queue
    next_trigger,       \* history: identity of the next trigger a producer pushes
    notified,           \* history: trigger identity -> number of times it was notified
    idle_pass,          \* history of the current (or last) idle pass
    config,             \* new_window's `config` argument
    window_builder      \* new_window's `window_builder`, as configured

idle_vars == <<EXT_EVENT_QUEUE, next_trigger, notified, idle_pass>>

builder_vars == <<config, window_builder>>

vars == <<platform, window_handles, timers, control_flow, APP_UPDATE_EVENTS,
          events, pc, now, next_id, creates, closes_live, closed, registered, replaced,
          invoked, applied, pass, destroys, last, calls, idle_vars, builder_vars>>

\* ---------------------------------------------------------------- helpers
Ids(s) == [i \in 1..Len(s) |-> s[i].id]

Min(S) == CHOOSE x \in S : \A y \in S : x <= y

\* All orders in which a HashMap may iterate over the key set S.
Orders(S) ==
    {s \in [1..Cardinality(S) -> S] : \A i, j \in 1..Cardinality(S) : i # j => s[i] # s[j]}

Call(op, target, arg) == [op |-> op, target |-> target, arg |-> arg]

\* Number of calls of operation op in the call sequence cs.
CallsOf(cs, op) == Cardinality({i \in 1..Len(cs) : cs[i].op = op})

Step(handler, window_id, event, id) ==
    [handler |-> handler, window_id |-> window_id, event |-> event, id |-> id]

Wait == [kind |-> "Wait", deadline |-> 0]
WaitUntil(d) == [kind |-> "WaitUntil", deadline |-> d]

\* ------------------------------------------------------- AppUpdateEvent
NewWindowEvent == [kind |-> "NewWindow", window_id |-> 0, token |-> 0, deadline |-> 0]
CloseWindowEvent(w) == [kind |-> "CloseWindow", window_id |-> w, token |-> 0, deadline |-> 0]
RequestTimerEvent(t, d) == [kind |-> "RequestTimer", window_id |-> 0, token |-> t, deadline |-> d]
MenuActionEvent(w) == [kind |-> "MenuAction", window_id |-> w, token |-> 0, deadline |-> 0]

\* The variants of AppUpdateEvent on platform p (MenuAction is cfg(linux)).
AppUpdateEvent(p) ==
    {NewWindowEvent}
    \cup {CloseWindowEvent(w) : w \in WindowIds}
    \cup {RequestTimerEvent(t, d) : t \in TimerTokens, d \in Instants \ {0}}
    \cup (IF p = "linux" THEN {MenuActionEvent(w) : w \in WindowIds} ELSE {})

Stamp(c, n) ==
    [id |-> n, kind |-> c.kind, window_id |-> c.window_id, token |-> c.token,
     deadline |-> c.deadline]

\* What a callback run by a handler (view_fn, destroy, a timer's action) may
\* push to APP_UPDATE_EVENTS: nothing, or one event.
Pushes ==
    {<<>>} \cup (IF next_id <= MaxEvents
                 THEN {<<Stamp(c, next_id)>> : c \in AppUpdateEvent(platform)}
                 ELSE {})

\* ------------------------------------------------------ window registry
WindowHandle == [window |-> TRUE, modifiers |-> 0]

\* window_builder.build(event_loop): Err, or Ok with an id no live window has.
BuildResults(wh) ==
    {[ok |-> FALSE, window_id |-> 0]}
    \cup {[ok |-> TRUE, window_id |-> w] : w \in WindowIds \ DOMAIN wh}

\* A new_window that inserts whatever build returned, Err included.
new_window_unchecked(wh, result) ==
    [w \in DOMAIN wh \cup {result.window_id} |->
        IF w = result.window_id THEN WindowHandle ELSE wh[w]]

\* new_window, lines 198-205.
new_window(wh, result) ==
    IF result.ok
    THEN [w \in DOMAIN wh \cup {result.window_id} |->
            IF w = result.window_id THEN WindowHandle ELSE wh[w]]
    ELSE wh

\* A close_window that tears down without clearing the resource field first.
clear_window_kept(wh, w) == wh

\* close_window, lines 214-217: handle.window = None for a live entry.
clear_window(wh, w) ==
    IF w \in DOMAIN wh THEN [wh EXCEPT ![w].window = FALSE] ELSE wh

\* What a lookup of w in the registry finds: nothing, an entry whose resource
\* field is None, or an entry still holding its platform window.
NoEntry == "none"
ClearedEntry == "cleared"
LiveEntry == "live"
entry(wh, w) ==
    IF w \notin DOMAIN wh THEN NoEntry
    ELSE IF wh[w].window THEN LiveEntry ELSE ClearedEntry

\* A close_window that forgets the remove of line 218.
remove_window_kept(wh, w) == wh

\* close_window, line 218: window_handles.remove(&window_id).
remove_window(wh, w) == [x \in DOMAIN wh \ {w} |-> wh[x]]

\* close_window, lines 214-218, as a function of the registry.
close_window(wh, w) == remove_window(clear_window(wh, w), w)

\* A close_window whose exit lost its cfg(not(target_os = "macos")).
close_exits_any_os(p, wh) == DOMAIN wh = {}

\* close_window, lines 219-222: whether event_loop.exit() is called.
close_exits(p, wh) == p # "macos" /\ DOMAIN wh = {}

\* The calls close_window makes: destroy on a live entry (line 216, made on
\* the entry as line 215 left it and before line 218 removes it; the call
\* records what a lookup of w finds at that moment), exit by policy.
close_calls(p, wh, w) ==
    (IF w \in DOMAIN wh
     THEN <<Call("destroy", w, entry(clear_window(wh, w), w))>>
     ELSE <<>>)
    \o (IF close_exits(p, close_window(wh, w)) THEN <<Call("exit", 0, 0)>> ELSE <<>>)

\* ------------------------------------------------------- timer registry
Timer(id, token, deadline) == [id |-> id, token |-> token, deadline |-> deadline]

\* request_timer, line 235: timers.insert(timer.token, timer).
insert_timer(ts, timer) ==
    [t \in DOMAIN ts \cup {timer.token} |-> IF t = timer.token THEN timer ELSE ts[t]]

\* request_timer, line 235: the identity of the timer the insert drops, if the
\* token was already held (HashMap::insert returns it and it is discarded).
displaced(ts, timer) ==
    IF timer.token \in DOMAIN ts THEN {ts[timer.token].id} ELSE {}

\* A fire_timer that takes .max() of the deadlines.
fire_timer_max(ts) ==
    IF DOMAIN ts = {}
    THEN <<>>
    ELSE <<Call("set_control_flow", 0,
                CHOOSE d \in {ts[t].deadline : t \in DOMAIN ts} :
                    \A t \in DOMAIN ts : ts[t].deadline <= d)>>

\* fire_timer, lines 239-248: the set_control_flow call it makes, if any.
fire_timer(ts) ==
    IF DOMAIN ts = {}
    THEN <<>>
    ELSE <<Call("set_control_flow", 0, Min({ts[t].deadline : t \in DOMAIN ts}))>>

\* EventLoopWindowTarget::set_control_flow: the loop's ControlFlow after the
\* calls cs, starting from cf.
RECURSIVE set_control_flow(_, _)
set_control_flow(cf, cs) ==
    IF cs = <<>>
    THEN cf
    ELSE set_control_flow(IF Head(cs).op = "set_control_flow"
                          THEN WaitUntil(Head(cs).arg)
                          ELSE cf,
                          Tail(cs))

\* A filter that tests timer.deadline < now.
due_tokens_strict(ts, t0) == {t \in DOMAIN ts : ts[t].deadline < t0}

\* handle_timer, lines 252-262: the tokens whose deadline has passed.
due_tokens(ts, t0) == {t \in DOMAIN ts : ts[t].deadline <= t0}

\* A loop that looks the timer up (get) without removing it.
remove_timer_kept(ts, token) == ts

\* handle_timer, line 265: timers.remove(&token).
remove_timer(ts, token) == [t \in DOMAIN ts \ {token} |-> ts[t]]

\* handle_timer, lines 264-268: the loop over the collected tokens; gives the
\* registry it leaves and the action calls it makes, in order.
RECURSIVE fire_due(_, _)
fire_due(ts, tokens) ==
    IF tokens = <<>>
    THEN [timers |-> ts, calls |-> <<>>]
    ELSE LET token == Head(tokens)
             held == token \in DOMAIN ts
             rest == fire_due(IF held THEN remove_timer(ts, token) ELSE ts, Tail(tokens))
         IN [timers |-> rest.timers,
             calls |-> (IF held THEN <<Call("action", token, ts[token].id)>> ELSE <<>>)
                       \o rest.calls]

\* ------------------------------------------------- notification queue
MaxTriggers == 2

\* Identities of the notifications whose history is kept.
TriggerIds == 1..MaxTriggers

\* A notification whose history is not kept.
Untracked == 0

\* idle_pass before any idle pass: what the queue held when the pass started
\* and what the pass has notified so far, in order.
NoPass == [queued |-> <<>>, notified |-> <<>>]

\* A pop that leaves the item at the front of the queue.
pop_front_peek(q) ==
    IF q = <<>> THEN [some |-> FALSE, item |-> Untracked, rest |-> q]
    ELSE [some |-> TRUE, item |-> Head(q), rest |-> q]

\* idle, line 226: EXT_EVENT_HANDLER.queue.lock().pop_front(), one critical
\* section: the Option it returns and the queue it leaves.
pop_front(q) ==
    IF q = <<>> THEN [some |-> FALSE, item |-> Untracked, rest |-> q]
    ELSE [some |-> TRUE, item |-> Head(q), rest |-> Tail(q)]

\* ------------------------------------------------------- window builder
DefaultWidth == 800
DefaultHeight == 600

\* Lengths a configured size is drawn from (f64 in the source; only the
\* comparison with 0.0 and the value itself are used).
Lengths == {0, 600, 768, DefaultWidth, 1024}

\* Option<T>: None, or Some(x).
None == <<>>
Some(x) == <<x>>
Option(S) == {None} \cup {Some(x) : x \in S}

NoConfig == None

\* Option<WindowConfig>: each field is an Option.
Configs ==
    Option([size : Option(Lengths \X Lengths),
            position : Option({<<0, 0>>, <<10, 20>>}),
            show_titlebar : Option(BOOLEAN)])

\* No WindowBuilder constructed yet.
NoBuilder == None

\* line 169: winit::window::WindowBuilder::new(), the fields new_window sets.
NewBuilder ==
    [inner_size |-> None, position |-> None, title_hidden |-> FALSE,
     titlebar_transparent |-> FALSE, fullsize_content_view |-> FALSE,
     decorations |-> TRUE]

\* A fallback that needs both dimensions to be zero.
effective_size_both(size) ==
    IF size[1] = 0 /\ size[2] = 0 THEN <<DefaultWidth, DefaultHeight>> ELSE size

\* lines 172-176: the size handed to with_inner_size.
effective_size(size) ==
    IF size[1] = 0 \/ size[2] = 0 THEN <<DefaultWidth, DefaultHeight>> ELSE size

\* lines 171-179.
with_size(b, c) ==
    IF c.size # None
    THEN [b EXCEPT !.inner_size = Some(effective_size(c.size[1]))]
    ELSE b

\* lines 180-182.
with_position(b, c) ==
    IF c.position # None THEN [b EXCEPT !.position = c.position] ELSE b

\* lines 183-196: the cfg-selected effect of show_titlebar = Some(false).
with_titlebar(p, b, c) ==
    IF c.show_titlebar # Some(FALSE) THEN b
    ELSE IF p = "macos"
    THEN [b EXCEPT !.title_hidden = TRUE, !.titlebar_transparent = TRUE,
                   !.fullsize_content_view = TRUE]
    ELSE [b EXCEPT !.decorations = FALSE]

\* lines 169-197: the builder new_window hands to build().
configured(p, c) ==
    IF c = None THEN NewBuilder
    ELSE with_titlebar(p, with_position(with_size(NewBuilder, c[1]), c[1]), c[1])

\* --------------------------------------------------------------- Init
Init ==
    /\ platform \in Platforms
    /\ window_handles = <<>>
    /\ timers = <<>>
    /\ control_flow = Wait
    /\ APP_UPDATE_EVENTS = <<>>
    /\ events = <<>>
    /\ pc = "loop"
    /\ now = 0
    /\ next_id = 1
    /\ creates = 0
    /\ closes_live = 0
    /\ closed = {}
    /\ registered = {}
    /\ replaced = {}
    /\ invoked = [i \in EventIds |-> 0]
    /\ applied = [i \in EventIds |-> 0]
    /\ pass = [drained |-> <<>>, applied |-> <<>>, dropped |-> <<>>, appended |-> <<>>]
    /\ destroys = 0
    /\ last = Step("new", 0, "", 0)
    /\ calls = <<>>
    /\ EXT_EVENT_QUEUE = <<>>
    /\ next_trigger = 1
    /\ notified = [i \in TriggerIds |-> 0]
    /\ idle_pass = NoPass
    /\ config = NoConfig
    /\ window_builder = NoBuilder

\* ------------------------------------------------- application-scoped events
\* A producer on the coordinator's thread (application code running between
\* two handlers) pushes one AppUpdateEvent.
Push ==
    /\ pc = "loop"
    /\ next_id <= MaxEvents
    /\ \E c \in AppUpdateEvent(platform) :
         APP_UPDATE_EVENTS' = Append(APP_UPDATE_EVENTS, Stamp(c, next_id))
    /\ next_id' = next_id + 1
    /\ last' = Step("push", 0, "", next_id)
    /\ calls' = <<>>
    /\ UNCHANGED <<platform, window_handles, timers, control_flow, events, pc, now,
                   creates, closes_live, destroys, closed, registered, replaced, invoked, applied,
                   pass>>
    /\ UNCHANGED <<idle_vars, builder_vars>>

\* A drain that hands the batch over newest first (a stack, not a queue).
take_reversed(q) == [taken |-> [i \in 1..Len(q) |-> q[Len(q) + 1 - i]], left |-> <<>>]

\* A drain that clones the queue and leaves it as it was.
take_clone(q) == [taken |-> q, left |-> q]

\* handle_update_event, lines 52-55: std::mem::take(&mut *events).
take(q) == [taken |-> q, left |-> <<>>]

\* handle_update_event, lines 51-56: the drain that starts a pass (also reached
\* through handle_user_event(UserEvent::AppUpdate), lines 39-41).
handle_update_event ==
    /\ pc = "loop"
    /\ events' = take(APP_UPDATE_EVENTS).taken
    /\ APP_UPDATE_EVENTS' = take(APP_UPDATE_EVENTS).left
    /\ pc' = IF events' = <<>> THEN "loop" ELSE "update"
    /\ pass' = [drained |-> Ids(events'), applied |-> <<>>, dropped |-> <<>>,
                appended |-> <<>>]
    /\ last' = Step("handle_update_event", 0, "", 0)
    /\ calls' = <<>>
    /\ UNCHANGED <<platform, window_handles, timers, control_flow, now, next_id,
                   creates, closes_live, destroys, closed, registered, replaced, invoked, applied>>
    /\ UNCHANGED <<idle_vars, builder_vars>>

\* The bookkeeping every iteration of the `for event in events` loop shares:
\* the event's arm ran (or the event was dropped), `rest` is what is left of
\* the batch, and the callbacks run by the arm pushed `pushed`.
Iterate(e, ran, rest, pushed) ==
    /\ events' = rest
    /\ pc' = IF rest = <<>> THEN "loop" ELSE "update"
    /\ APP_UPDATE_EVENTS' = APP_UPDATE_EVENTS \o pushed
    /\ next_id' = next_id + Len(pushed)
    /\ applied' = IF ran THEN [applied EXCEPT ![e.id] = @ + 1] ELSE applied
    /\ pass' = [pass EXCEPT
                  !.applied = IF ran THEN Append(@, e.id) ELSE @,
                  !.dropped = IF ran THEN @ ELSE Append(@, e.id),
                  !.appended = @ \o Ids(pushed)]

\* lines 58-60 with new_window, lines 163-206.
UpdateNewWindow ==
    /\ pc = "update"
    /\ Head(events).kind = "NewWindow"
    /\ \E result \in BuildResults(window_handles), pushed \in Pushes :
         /\ ~result.ok => pushed = <<>>   \* view_fn runs in WindowHandle::new only
         /\ window_handles' = new_window(window_handles, result)
         /\ creates' = creates + (IF result.ok THEN 1 ELSE 0)
         /\ calls' = <<Call("build", result.window_id, 0)>>
                     \o (IF result.ok THEN <<Call("view_fn", result.window_id, 0)>> ELSE <<>>)
         /\ last' = Step("new_window", result.window_id, "", Head(events).id)
         /\ Iterate(Head(events), TRUE, Tail(events), pushed)
    /\ UNCHANGED <<platform, timers, control_flow, now, closes_live, destroys, closed,
                   registered, replaced, invoked>>
    /\ UNCHANGED <<idle_vars, builder_vars>>

\* close_window, lines 208-223, on window w; destroy may push `pushed`.
CloseWindow(w) ==
    /\ window_handles' = close_window(window_handles, w)
    /\ closes_live' = closes_live + (IF w \in DOMAIN window_handles THEN 1 ELSE 0)
    /\ closed' = closed \cup (DOMAIN window_handles \cap {w})
    /\ calls' = close_calls(platform, window_handles, w)
    /\ destroys' = destroys + CallsOf(calls', "destroy")

\* lines 61-63.
UpdateCloseWindow ==
    /\ pc = "update"
    /\ Head(events).kind = "CloseWindow"
    /\ \E pushed \in Pushes :
         /\ Head(events).window_id \notin DOMAIN window_handles => pushed = <<>>
         /\ CloseWindow(Head(events).window_id)
         /\ last' = Step("close_window", Head(events).window_id, "", Head(events).id)
         /\ Iterate(Head(events), TRUE, Tail(events), pushed)
    /\ UNCHANGED <<platform, timers, control_flow, now, creates, registered, replaced,
                   invoked>>
    /\ UNCHANGED <<idle_vars, builder_vars>>

\* lines 64-66 with request_timer, lines 234-237.
UpdateRequestTimer ==
    /\ pc = "update"
    /\ Head(events).kind = "RequestTimer"
    /\ LET e == Head(events) IN
         /\ timers' = insert_timer(timers, Timer(e.id, e.token, e.deadline))
         /\ calls' = fire_timer(timers')
         /\ control_flow' = set_control_flow(control_flow, calls')
         /\ registered' = registered \cup {e.id}
         /\ replaced' = replaced \cup displaced(timers, Timer(e.id, e.token, e.deadline))
         /\ last' = Step("request_timer", 0, "", e.id)
         /\ Iterate(e, TRUE, Tail(events), <<>>)
    /\ UNCHANGED <<platform, window_handles, now, creates, closes_live, destroys, closed, invoked>>
    /\ UNCHANGED <<idle_vars, builder_vars>>

\* lines 72-75: what is left of the batch after a MenuAction naming w.
menu_action_rest(wh, w, evs) == IF w \in DOMAIN wh THEN Tail(evs) ELSE <<>>

\* lines 67-77 (cfg linux).
UpdateMenuAction ==
    /\ pc = "update"
    /\ Head(events).kind = "MenuAction"
    /\ LET e == Head(events)
           live == e.window_id \in DOMAIN window_handles
       IN \E pushed \in Pushes :
            /\ ~live => pushed = <<>>
            /\ calls' = IF live THEN <<Call("forward", e.window_id, 0)>> ELSE <<>>
            /\ last' = Step("menu_action", e.window_id, "", e.id)
            /\ Iterate(e, live, menu_action_rest(window_handles, e.window_id, events), pushed)
    /\ UNCHANGED <<platform, window_handles, timers, control_flow, now, creates,
                   closes_live, destroys, closed, registered, replaced, invoked>>
    /\ UNCHANGED <<idle_vars, builder_vars>>

\* A QuitApp that exits only when no window is left.
QuitApp_if_no_windows ==
    /\ pc = "loop"
    /\ calls' = IF DOMAIN window_handles = {} THEN <<Call("exit", 0, 0)>> ELSE <<>>
    /\ last' = Step("quit_app", 0, "", 0)
    /\ UNCHANGED <<platform, window_handles, timers, control_flow, APP_UPDATE_EVENTS,
                   events, pc, now, next_id, creates, closes_live, destroys, closed, registered,
                   replaced, invoked, applied, pass>>
    /\ UNCHANGED <<idle_vars, builder_vars>>

\* handle_user_event, lines 45-47.
QuitApp ==
    /\ pc = "loop"
    /\ calls' = <<Call("exit", 0, 0)>>
    /\ last' = Step("quit_app", 0, "", 0)
    /\ UNCHANGED <<platform, window_handles, timers, control_flow, APP_UPDATE_EVENTS,
                   events, pc, now, next_id, creates, closes_live, destroys, closed, registered,
                   replaced, invoked, applied, pass>>
    /\ UNCHANGED <<idle_vars, builder_vars>>

\* ------------------------------------------------------ window-scoped events
\* lines 105-110: the events routed to close_window.
CloseEvents == {"CloseRequested", "Destroyed"}

\* lines 95-104, 114-119, 123-130, 132-140, 147-152, 154-159: the events
\* forwarded to a method of the window's WindowHandle.
ForwardedEvents ==
    {"Resized", "Moved", "Focused", "KeyboardInput", "Ime", "CursorMoved", "CursorLeft",
     "MouseWheel", "MouseInput", "ScaleFactorChanged", "ThemeChanged", "MenuAction",
     "RedrawRequested"}

\* lines 94, 111-113, 131, 141-146, 153: the events matched with an empty arm.
IgnoredEvents ==
    {"ActivationTokenDone", "DroppedFile", "HoveredFile", "HoveredFileCancelled",
     "CursorEntered", "TouchpadMagnify", "SmartMagnify", "TouchpadRotate",
     "TouchpadPressure", "AxisMotion", "Touch", "Occluded"}

\* The variants of winit's WindowEvent that handle_window_event matches.
WindowEvent == CloseEvents \cup ForwardedEvents \cup IgnoredEvents \cup {"ModifiersChanged"}

\* The arm of the match (lines 93-160) an event takes.
arm(ev) ==
    IF ev \in CloseEvents THEN "close"
    ELSE IF ev = "ModifiersChanged" THEN "modifiers"
    ELSE IF ev \in ForwardedEvents THEN "forward"
    ELSE "ignore"

\* A ModifiersChanged that overwrites the cached modifiers of every window.
set_modifiers_all(wh, w, m) == [x \in DOMAIN wh |-> [wh[x] EXCEPT !.modifiers = m]]

\* lines 120-122: window_handle.modifiers = modifiers.state().
set_modifiers(wh, w, m) == [wh EXCEPT ![w].modifiers = m]

\* A lookup that never misses.
lookup_any(wh, w) == TRUE

\* lines 88-91: the lookup every window-scoped event starts with.
lookup(wh, w) == w \in DOMAIN wh

\* handle_window_event, lines 82-161: the step records the arm the event takes
\* and, in calls, the window a WindowHandle method was called on.
handle_window_event ==
    /\ pc = "loop"
    /\ \E w \in WindowIds, a \in {arm(ev) : ev \in WindowEvent} :
         /\ last' = Step("handle_window_event", w, a, 0)
         /\ IF ~lookup(window_handles, w)
            THEN /\ calls' = <<>>
                 /\ UNCHANGED <<window_handles, closes_live, destroys, closed, APP_UPDATE_EVENTS,
                                next_id>>
            ELSE IF a = "close"
            THEN \E pushed \in Pushes :
                    /\ CloseWindow(w)
                    /\ APP_UPDATE_EVENTS' = APP_UPDATE_EVENTS \o pushed
                    /\ next_id' = next_id + Len(pushed)
            ELSE IF a = "modifiers"
            THEN /\ \E m \in ModifiersStates :
                       window_handles' = set_modifiers(window_handles, w, m)
                 /\ calls' = <<>>
                 /\ UNCHANGED <<closes_live, destroys, closed, APP_UPDATE_EVENTS, next_id>>
            ELSE /\ calls' = IF a = "forward" THEN <<Call("forward", w, 0)>> ELSE <<>>
                 /\ UNCHANGED <<window_handles, closes_live, destroys, closed, APP_UPDATE_EVENTS,
                                next_id>>
    /\ UNCHANGED <<platform, timers, control_flow, events, pc, now, creates, registered,
                   replaced, invoked, applied, pass>>
    /\ UNCHANGED <<idle_vars, builder_vars>>

\* ------------------------------------------------------------------ timers
\* A post-update pass that reaches no window.
process_updates_none(order) == <<>>

\* The process_update calls of lines 229-231 and 269-271, in iteration order.
process_updates(order) == [i \in 1..Len(order) |-> Call("process_update", order[i], 0)]

\* Number of action calls in cs made on the timer of identity id.
Invocations(cs, id) == Cardinality({i \in 1..Len(cs) : cs[i].op = "action" /\ cs[i].arg = id})

\* handle_timer, lines 250-274.
handle_timer ==
    /\ pc = "loop"
    /\ \E tokens \in Orders(due_tokens(timers, now)),
          handles \in Orders(DOMAIN window_handles),
          pushed \in Pushes :
         LET fired == fire_due(timers, tokens) IN
         /\ tokens = <<>> => pushed = <<>>
         /\ timers' = fired.timers
         /\ calls' = fired.calls
                     \o (IF tokens # <<>> THEN process_updates(handles) ELSE <<>>)
                     \o fire_timer(timers')
         /\ control_flow' = set_control_flow(control_flow, calls')
         /\ invoked' = [i \in EventIds |-> invoked[i] + Invocations(calls', i)]
         /\ APP_UPDATE_EVENTS' = APP_UPDATE_EVENTS \o pushed
         /\ next_id' = next_id + Len(pushed)
    /\ last' = Step("handle_timer", 0, "", 0)
    /\ UNCHANGED <<platform, window_handles, events, pc, now, creates, closes_live, destroys,
                   closed, registered, replaced, applied, pass>>
    /\ UNCHANGED <<idle_vars, builder_vars>>

\* Time passes on the monotonic clock.
Tick ==
    /\ pc = "loop"
    /\ now + 1 \in Instants
    /\ now' = now + 1
    /\ last' = Step("tick", 0, "", 0)
    /\ calls' = <<>>
    /\ UNCHANGED <<platform, window_handles, timers, control_flow, APP_UPDATE_EVENTS,
                   events, pc, next_id, creates, closes_live, destroys, closed, registered,
                   replaced, invoked, applied, pass>>
    /\ UNCHANGED <<idle_vars, builder_vars>>

\* -------------------------------------------------------------------- idle
\* Another thread appends a notification to EXT_EVENT_HANDLER.queue under its
\* lock; each appended notification gets a fresh identity.
Produce ==
    /\ next_trigger <= MaxTriggers
    /\ EXT_EVENT_QUEUE' = Append(EXT_EVENT_QUEUE, next_trigger)
    /\ next_trigger' = next_trigger + 1
    /\ last' = Step("produce", 0, "", next_trigger)
    /\ calls' = <<>>
    /\ UNCHANGED <<platform, window_handles, timers, control_flow, APP_UPDATE_EVENTS,
                   events, pc, now, next_id, creates, closes_live, destroys, closed,
                   registered, replaced, invoked, applied, pass, notified, idle_pass,
                   builder_vars>>

\* idle, lines 226-228, one iteration of the while-let loop that pops
\* Some(trigger): the pop is one critical section, then trigger.notify().
\* From pc = "loop" it is the first iteration of the idle() that
\* handle_user_event, lines 42-44, calls.
idle_notify ==
    /\ pc \in {"loop", "idle"}
    /\ LET popped == pop_front(EXT_EVENT_QUEUE)
           started == IF pc = "loop"
                      THEN [queued |-> EXT_EVENT_QUEUE, notified |-> <<>>]
                      ELSE idle_pass
       IN /\ popped.some
          /\ EXT_EVENT_QUEUE' = popped.rest
          /\ calls' = <<Call("notify", 0, popped.item)>>
          /\ IF popped.item \in TriggerIds
             THEN /\ notified' = [notified EXCEPT ![popped.item] = @ + 1]
                  /\ idle_pass' = [started EXCEPT !.notified = Append(@, popped.item)]
             ELSE /\ notified' = notified
                  /\ idle_pass' = started
    /\ pc' = "idle"
    /\ last' = Step("idle", 0, "notify", 0)
    /\ UNCHANGED <<platform, window_handles, timers, control_flow, APP_UPDATE_EVENTS,
                   events, now, next_id, creates, closes_live, destroys, closed,
                   registered, replaced, invoked, applied, pass, next_trigger,
                   builder_vars>>

\* idle, lines 226-231: the pop returns None, the loop ends, and every entry
\* of the registry gets process_update, in the map's iteration order.
idle_update ==
    /\ pc \in {"loop", "idle"}
    /\ ~pop_front(EXT_EVENT_QUEUE).some
    /\ \E handles \in Orders(DOMAIN window_handles), pushed \in Pushes :
         /\ DOMAIN window_handles = {} => pushed = <<>>
         /\ calls' = process_updates(handles)
         /\ APP_UPDATE_EVENTS' = APP_UPDATE_EVENTS \o pushed
         /\ next_id' = next_id + Len(pushed)
    /\ idle_pass' = IF pc = "loop" THEN NoPass ELSE idle_pass
    /\ pc' = "loop"
    /\ last' = Step("idle", 0, "process_update", 0)
    /\ UNCHANGED <<platform, window_handles, timers, control_flow, events, now,
                   creates, closes_live, destroys, closed, registered, replaced, invoked,
                   applied, pass, EXT_EVENT_QUEUE, next_trigger, notified, builder_vars>>

\* -------------------------------------------------------------------- spec
Next ==
    \/ Push
    \/ handle_update_event
    \/ UpdateNewWindow
    \/ UpdateCloseWindow
    \/ UpdateRequestTimer
    \/ UpdateMenuAction
    \/ QuitApp
    \/ handle_window_event
    \/ handle_timer
    \/ idle_update
    \/ Tick

\* The coordinator's thread alone: no other thread appends notifications.
Spec == Init /\ [][Next]_vars

\* ------------------------------------------- idle with concurrent producers
\* Registries new_window and close_window can leave behind.
Registries == UNION {[S -> {WindowHandle}] : S \in SUBSET WindowIds}

\* Timer registries request_timer and handle_timer can leave behind; the timer
\* held under a token carries that token as its identity.
TimerRegistries ==
    UNION {{[t \in T |-> Timer(t, t, d[t])] : d \in [T -> Instants \ {0}]} :
           T \in SUBSET TimerTokens}

\* The coordinator between two handlers, with some windows open and some
\* timers held, every AppUpdateEvent consumed and the notification queue empty.
Init_idle ==
    /\ platform \in Platforms
    /\ window_handles \in Registries
    /\ timers \in TimerRegistries
    /\ control_flow = set_control_flow(Wait, fire_timer(timers))
    /\ APP_UPDATE_EVENTS = <<>>
    /\ events = <<>>
    /\ pc = "loop"
    /\ now = 0
    /\ next_id = MaxEvents + 1
    /\ creates = Cardinality(DOMAIN window_handles)
    /\ closes_live = 0
    /\ closed = {}
    /\ registered = {timers[t].id : t \in DOMAIN timers}
    /\ replaced = {}
    /\ invoked = [i \in EventIds |-> 0]
    /\ applied = [i \in EventIds |-> 0]
    /\ pass = [drained |-> <<>>, applied |-> <<>>, dropped |-> <<>>, appended |-> <<>>]
    /\ destroys = 0
    /\ last = Step("new", 0, "", 0)
    /\ calls = <<>>
    /\ EXT_EVENT_QUEUE = <<>>
    /\ next_trigger = 1
    /\ notified = [i \in TriggerIds |-> 0]
    /\ idle_pass = NoPass
    /\ config = NoConfig
    /\ window_builder = NoBuilder

\* Idle and wake callbacks on the coordinator's thread, notifications appended
\* by other threads at any moment.
Next_idle ==
    \/ Produce
    \/ idle_notify
    \/ idle_update
    \/ handle_timer
    \/ Tick

IdleSpec == Init_idle /\ [][Next_idle]_vars

\* ------------------------------------------- idle with a steady producer
\* Notifications a producer may have queued and not yet seen notified.
MaxQueue == 1

\* Another thread that appends a notification whenever it finds fewer than
\* MaxQueue of them queued, for as long as it runs.
ProduceForever ==
    /\ Len(EXT_EVENT_QUEUE) < MaxQueue
    /\ EXT_EVENT_QUEUE' = Append(EXT_EVENT_QUEUE, Untracked)
    /\ last' = Step("produce", 0, "", 0)
    /\ calls' = <<>>
    /\ UNCHANGED <<platform, window_handles, timers, control_flow, APP_UPDATE_EVENTS,
                   events, pc, now, next_id, creates, closes_live, destroys, closed,
                   registered, replaced, invoked, applied, pass, next_trigger, notified,
                   idle_pass, builder_vars>>

Next_live ==
    \/ ProduceForever
    \/ idle_notify
    \/ idle_update
    \/ handle_timer
    \/ Tick

\* The coordinator's thread is never suspended inside idle(): whichever of the
\* loop's two steps the queue allows is eventually taken.
IdleLiveSpec ==
    Init_idle /\ [][Next_live]_vars /\ WF_vars(idle_notify \/ idle_update)

\* ------------------------------------------------ configuring a new window
\* new_window called with any config, before its builder is constructed.
Init_builder ==
    /\ platform \in Platforms
    /\ window_handles = <<>>
    /\ timers = <<>>
    /\ control_flow = Wait
    /\ APP_UPDATE_EVENTS = <<>>
    /\ events = <<>>
    /\ pc = "loop"
    /\ now = 0
    /\ next_id = 1
    /\ creates = 0
    /\ closes_live = 0
    /\ closed = {}
    /\ registered = {}
    /\ replaced = {}
    /\ invoked = [i \in EventIds |-> 0]
    /\ applied = [i \in EventIds |-> 0]
    /\ pass = [drained |-> <<>>, applied |-> <<>>, dropped |-> <<>>, appended |-> <<>>]
    /\ destroys = 0
    /\ last = Step("new", 0, "", 0)
    /\ calls = <<>>
    /\ EXT_EVENT_QUEUE = <<>>
    /\ next_trigger = 1
    /\ notified = [i \in TriggerIds |-> 0]
    /\ idle_pass = NoPass
    /\ config \in Configs
    /\ window_builder = NoBuilder

\* new_window, lines 169-197: the builder is constructed and configured.
configure ==
    /\ window_builder = NoBuilder
    /\ window_builder' = Some(configured(platform, config))
    /\ last' = Step("new_window", 0, "configure", 0)
    /\ calls' = <<>>
    /\ UNCHANGED <<platform, window_handles, timers, control_flow, APP_UPDATE_EVENTS,
                   events, pc, now, next_id, creates, closes_live, destroys, closed,
                   registered, replaced, invoked, applied, pass, idle_vars, config>>

Next_builder == configure

BuilderSpec == Init_builder /\ [][Next_builder]_vars

\* ------------------------------------------------------------------ claims
HasCall(cs, op) == \E i \in 1..Len(cs) : cs[i].op = op

Count(seq, x) == Cardinality({i \in 1..Len(seq) : seq[i] = x})

IsPrefix(p, q) == Len(p) <= Len(q) /\ \A i \in 1..Len(p) : p[i] = q[i]

\* The step that produced this state ran close_window: from the CloseWindow arm
\* of handle_update_event (always), or from a close event on a live window.
RanCloseWindow ==
    \/ last.handler = "close_window"
    \/ last.handler = "handle_window_event" /\ last.event = "close" /\ HasCall(calls, "destroy")

Held(id) == \E t \in DOMAIN timers : timers[t].id = id

\* C1: after every sequence of new-window requests (succeeding or failing) and
\* close requests, the number of entries of the window registry is the number
\* of successful creates minus the number of closes that named a live
\* identifier; a close naming an identifier with no live entry leaves the
\* registry's key set unchanged.
C1_RegistryCount ==
    /\ [](Cardinality(DOMAIN window_handles) = creates - closes_live)
    /\ [][(last'.handler = "close_window" /\ last'.window_id \notin DOMAIN window_handles)
            => DOMAIN window_handles' = DOMAIN window_handles]_vars

\* C1 witness: a close_window naming an identifier that was not live has run
\* while another window, created earlier, stays in the registry.
C1_Witness ==
    /\ last.handler = "close_window"
    /\ ~HasCall(calls, "destroy")
    /\ creates = 1
    /\ closes_live = 0
    /\ Cardinality(DOMAIN window_handles) = 1

\* C2: when the timer registry is non-empty at the end of request_timer or of
\* handle_timer, the loop's ControlFlow is WaitUntil(the minimum deadline of
\* the timers held).
C2_WakeIsMinDeadline ==
    (last.handler \in {"request_timer", "handle_timer"} /\ DOMAIN timers # {})
        => /\ control_flow.kind = "WaitUntil"
           /\ control_flow.deadline \in {timers[t].deadline : t \in DOMAIN timers}
           /\ \A t \in DOMAIN timers : control_flow.deadline <= timers[t].deadline

\* C2 witness: a fire pass fired one timer and left a later one, and the wake
\* is the deadline of the one left.
C2_Witness ==
    /\ last.handler = "handle_timer"
    /\ HasCall(calls, "action")
    /\ DOMAIN timers # {}
    /\ control_flow = WaitUntil(2)

\* C3 (as claimed): when a fire pass leaves the timer registry empty, the loop
\* is told to wait indefinitely, so that no earlier wake deadline stays in force.
C3_EmptyRegistryClearsWake ==
    (last.handler = "handle_timer" /\ DOMAIN timers = {}) => control_flow = Wait

\* C4: a fire pass at time T removes exactly the timers with deadline <= T and
\* leaves every other timer held and unchanged; the action of each removed
\* timer is called exactly once in the pass, with that timer's own token, and
\* no other action is called.
C4_FirePass ==
    [][last'.handler = "handle_timer" =>
        /\ DOMAIN timers' = {t \in DOMAIN timers : timers[t].deadline > now}
        /\ \A t \in DOMAIN timers' : timers'[t] = timers[t]
        /\ \A t \in DOMAIN timers \ DOMAIN timers' :
              Count(calls', Call("action", t, timers[t].id)) = 1
        /\ \A i \in 1..Len(calls') :
              calls'[i].op = "action" =>
                 /\ calls'[i].target \in DOMAIN timers \ DOMAIN timers'
                 /\ calls'[i].arg = timers[calls'[i].target].id]_vars

\* C4 witness: a fire pass has fired a due timer and left one that was not due.
C4_Witness ==
    /\ last.handler = "handle_timer"
    /\ HasCall(calls, "action")
    /\ \E t \in DOMAIN timers : timers[t].deadline > now

\* C5 (as claimed): every timer a request registered is either still held and
\* never invoked, or no longer held and invoked exactly once.
C5_ConsumedExactlyOnce ==
    \A id \in registered :
        \/ Held(id) /\ invoked[id] = 0
        \/ ~Held(id) /\ invoked[id] = 1

\* C5 (amended): a registered timer stays held until the fire pass that invokes
\* its action or until a later request reusing its token displaces it; a timer
\* no longer held was either invoked exactly once or displaced and never
\* invoked; no action is invoked more than once and none of an unregistered timer.
C5_ConsumedAtMostOnce ==
    /\ \A id \in registered :
          \/ Held(id) /\ invoked[id] = 0 /\ id \notin replaced
          \/ ~Held(id) /\ invoked[id] = 1 /\ id \notin replaced
          \/ ~Held(id) /\ invoked[id] = 0 /\ id \in replaced
    /\ \A id \in EventIds \ registered : invoked[id] = 0 /\ ~Held(id)

\* C5 witness: one timer was displaced by a request reusing its token, and the
\* timer that displaced it has fired.
C5_Witness ==
    /\ replaced # {}
    /\ \E id \in registered \ replaced : invoked[id] = 1

\* C6: handle_window_event with an identifier that has no live entry is a
\* no-op: no entry is created, both registries and the wake are unchanged,
\* nothing is forwarded, nothing is pushed and no exit is requested.
C6_StaleWindowEventNoOp ==
    [][(last'.handler = "handle_window_event" /\ last'.window_id \notin DOMAIN window_handles)
        => /\ window_handles' = window_handles
           /\ timers' = timers
           /\ control_flow' = control_flow
           /\ APP_UPDATE_EVENTS' = APP_UPDATE_EVENTS
           /\ calls' = <<>>]_vars

\* C6 witness: an event of a forwarding arm was dispatched to an identifier that
\* is not live while a window is live and a timer is held.
C6_Witness ==
    /\ last.handler = "handle_window_event"
    /\ last.event = "forward"
    /\ last.window_id \notin DOMAIN window_handles
    /\ DOMAIN window_handles # {}
    /\ DOMAIN timers # {}

\* C7 (as claimed): a close for an identifier that an earlier close removed and
\* that is not live is a silent no-op, from a window-scoped close event or from
\* a CloseWindow request: no teardown, the registry unchanged, no exit request.
C7_SecondCloseNoOp ==
    [][(/\ \/ last'.handler = "close_window"
           \/ last'.handler = "handle_window_event" /\ last'.event = "close"
        /\ last'.window_id \in closed
        /\ last'.window_id \notin DOMAIN window_handles)
        => /\ window_handles' = window_handles
           /\ calls' = <<>>]_vars

\* C8: a close_window on a platform other than macOS requests exit exactly when
\* the registry is empty after the removal; on macOS no close_window requests
\* exit.
C8_ShutdownPolicy ==
    RanCloseWindow =>
        (HasCall(calls, "exit") <=> (platform # "macos" /\ DOMAIN window_handles = {}))

\* C8 witness: on linux a live window was closed while another stayed live.
C8_Witness ==
    /\ RanCloseWindow
    /\ HasCall(calls, "destroy")
    /\ platform = "linux"
    /\ DOMAIN window_handles # {}

\* C9 (as claimed): at the end of a pass every drained event was handled
\* exactly once in the pass: its arm ran once, or it was a MenuAction naming a
\* window that is not live and it alone was dropped.
C9_EveryDrainedEventHandled ==
    pc = "loop" =>
        \A i \in 1..Len(pass.drained) :
            Count(pass.applied, pass.drained[i]) + Count(pass.dropped, pass.drained[i]) = 1

\* C10: the queue is drained by swap-with-empty: the events pushed while a pass
\* runs are not handled in that pass and are queued, once each and in order,
\* ahead of anything pushed later; the next drain takes them; no event's arm
\* runs twice.
C10_SwapWithEmpty ==
    /\ [](/\ IsPrefix(pass.appended, Ids(APP_UPDATE_EVENTS))
          /\ \A i \in 1..Len(pass.appended) :
                /\ Count(pass.applied, pass.appended[i]) = 0
                /\ Count(pass.drained, pass.appended[i]) = 0
                /\ applied[pass.appended[i]] = 0
                /\ Count(Ids(APP_UPDATE_EVENTS), pass.appended[i]) = 1
          /\ \A id \in EventIds : applied[id] <= 1)
    /\ [][last'.handler = "handle_update_event"
            => /\ IsPrefix(pass.appended, pass'.drained)
               /\ Ids(events') = pass'.drained
               /\ APP_UPDATE_EVENTS' = <<>>]_vars

\* C10 witness: a pass has ended in which view_fn pushed an event; the event
\* that was drained has been handled and the pushed one is queued.
C10_Witness ==
    /\ pc = "loop"
    /\ last.handler = "new_window"
    /\ HasCall(calls, "view_fn")
    /\ pass.appended # <<>>
    /\ pass.applied # <<>>

\* C11: within one pass the events are applied in their queue order: the batch
\* is the queue as it stood, each step applies the event at the head of what
\* is left, and the events applied so far are a prefix of the drained batch.
C11_ArrivalOrder ==
    /\ [](IsPrefix(pass.applied, pass.drained))
    /\ [][last'.handler = "handle_update_event"
            => /\ events' = APP_UPDATE_EVENTS
               /\ pass'.drained = Ids(APP_UPDATE_EVENTS)]_vars
    /\ [][(pc = "update" /\ Len(pass'.applied) = Len(pass.applied) + 1)
            => /\ pass'.applied = Append(pass.applied, Head(events).id)
               /\ last'.id = Head(events).id
               /\ events' = Tail(events)]_vars

\* C11 witness: a NewWindow and a CloseWindow naming the window it created were
\* drained together; the close, applied second, found the window live.
C11_Witness ==
    /\ pc = "loop"
    /\ last.handler = "close_window"
    /\ HasCall(calls, "destroy")
    /\ Len(pass.applied) = 2
    /\ pass.applied = pass.drained
    /\ creates = 1

\* C13: UserEvent::QuitApp requests exit whatever the number of live windows
\* and of held timers and whatever the platform, and changes neither registry.
C13_QuitUnconditional ==
    [][last'.handler = "quit_app"
        => /\ calls' = <<Call("exit", 0, 0)>>
           /\ window_handles' = window_handles
           /\ timers' = timers]_vars

\* C13 witness: QuitApp was handled on macOS with a window live and a timer held.
C13_Witness ==
    /\ last.handler = "quit_app"
    /\ HasCall(calls, "exit")
    /\ platform = "macos"
    /\ DOMAIN window_handles # {}
    /\ DOMAIN timers # {}

\* C14: a new-window request whose construction fails inserts nothing, leaves
\* both registries as they were and makes no call but the build (no exit);
\* one that succeeds inserts exactly one entry, under the identifier the
\* platform assigned, and leaves every other entry and the timers as they were.
C14_NewWindowResult ==
    [][last'.handler = "new_window"
        => /\ timers' = timers
           /\ ~HasCall(calls', "exit")
           /\ IF HasCall(calls', "view_fn")
              THEN /\ last'.window_id \notin DOMAIN window_handles
                   /\ DOMAIN window_handles' = DOMAIN window_handles \cup {last'.window_id}
                   /\ \A w \in DOMAIN window_handles : window_handles'[w] = window_handles[w]
                   /\ Cardinality(DOMAIN window_handles')
                        = Cardinality(DOMAIN window_handles) + 1
              ELSE /\ window_handles' = window_handles
                   /\ calls' = <<Call("build", 0, 0)>>
                   /\ APP_UPDATE_EVENTS' = APP_UPDATE_EVENTS]_vars

\* C14 witness: a construction failed while a window created earlier is live.
C14_Witness ==
    /\ last.handler = "new_window"
    /\ ~HasCall(calls, "view_fn")
    /\ creates = 1
    /\ DOMAIN window_handles # {}

\* C16: close is two-phase and ordered. A close of a live identifier makes
\* exactly one teardown call, on that identifier, made when a lookup of the
\* identifier finds the entry with its resource field already cleared, and the
\* entry is gone once the close has returned; a close of an identifier with no
\* entry tears nothing down; no other step tears anything down, so the number
\* of teardown calls is the number of entries that have left the registry.
C16_TwoPhaseClose ==
    /\ [][(last'.handler = "close_window"
            \/ (last'.handler = "handle_window_event" /\ last'.event = "close"))
          => IF last'.window_id \in DOMAIN window_handles
             THEN /\ CallsOf(calls', "destroy") = 1
                  /\ calls'[1] = Call("destroy", last'.window_id, ClearedEntry)
                  /\ entry(window_handles', last'.window_id) = NoEntry
                  /\ destroys' = destroys + 1
             ELSE /\ ~HasCall(calls', "destroy")
                  /\ destroys' = destroys]_vars
    /\ [](HasCall(calls, "destroy") => RanCloseWindow)
    /\ [](destroys = creates - Cardinality(DOMAIN window_handles))

\* C16 witness: a close event tore down one of two live windows, its entry
\* present and cleared during the teardown and absent afterwards.
C16_Witness ==
    /\ last.handler = "handle_window_event"
    /\ last.event = "close"
    /\ calls = <<Call("destroy", last.window_id, ClearedEntry)>>
    /\ entry(window_handles, last.window_id) = NoEntry
    /\ DOMAIN window_handles # {}
    /\ destroys = 1

\* The calls that dispatch to a window's state: a forwarded window event, menu
\* action or paint request, and the post-update pass.
Dispatches == {"forward", "process_update"}

\* C17: no dispatch reaches a window that has begun teardown. Every entry of
\* the registry still holds its platform window between two handlers; every
\* forwarded event, menu action, paint request and post-update call (from idle
\* or from the timer path) is made on an identifier whose entry is live before
\* and after the step; and the step that tears a window down makes one call on
\* that window, the teardown, and dispatches nothing to it.
C17_NoDispatchAfterTeardown ==
    /\ [](\A w \in DOMAIN window_handles : entry(window_handles, w) = LiveEntry)
    /\ [][\A i \in 1..Len(calls') :
            /\ calls'[i].op \in Dispatches
                 => /\ entry(window_handles, calls'[i].target) = LiveEntry
                    /\ entry(window_handles', calls'[i].target) = LiveEntry
            /\ calls'[i].op = "destroy"
                 => /\ entry(window_handles', calls'[i].target) = NoEntry
                    /\ \A j \in 1..Len(calls') :
                          (calls'[j].target = calls'[i].target
                           /\ calls'[j].op \in Dispatches \cup {"destroy"}) => j = i]_vars

\* C17 witness: an idle pass ran the post-update pass on the one window left
\* after another window was torn down.
C17_Witness ==
    /\ last.handler = "idle"
    /\ HasCall(calls, "process_update")
    /\ closed # {}
    /\ closed \cap DOMAIN window_handles = {}
    /\ \A i \in 1..Len(calls) : calls[i].target \notin closed

\* C20: a window-scoped event for W that is not a close event leaves the
\* registry's key set, the timers and the wake deadline as they were, leaves
\* the entry of every other window as it was, and makes calls on W only; a
\* modifiers-changed event for a live W forwards nothing and changes nothing
\* of W's entry but its cached modifiers.
C20_RoutingIsolation ==
    [][(last'.handler = "handle_window_event" /\ last'.event # "close")
        => /\ DOMAIN window_handles' = DOMAIN window_handles
           /\ timers' = timers
           /\ control_flow' = control_flow
           /\ \A x \in DOMAIN window_handles \ {last'.window_id} :
                 window_handles'[x] = window_handles[x]
           /\ \A i \in 1..Len(calls') : calls'[i].target = last'.window_id
           /\ last'.event # "modifiers" => window_handles' = window_handles
           /\ (last'.event = "modifiers" /\ last'.window_id \in DOMAIN window_handles)
                 => /\ calls' = <<>>
                    /\ window_handles'[last'.window_id].window
                         = window_handles[last'.window_id].window]_vars

\* C20 witness: a modifiers-changed event overwrote the cached modifiers of one
\* of two live windows and left the other's as they were.
C20_Witness ==
    /\ last.handler = "handle_window_event"
    /\ last.event = "modifiers"
    /\ Cardinality(DOMAIN window_handles) = 2
    /\ last.window_id \in DOMAIN window_handles
    /\ window_handles[last.window_id].modifiers = 1
    /\ \E x \in DOMAIN window_handles : window_handles[x].modifiers = 0

\* C12: every notification appended to the shared queue is, at every moment,
\* either still queued once or notified once, never both and never neither;
\* an idle pass that has completed has notified, in order, every notification
\* the queue held when it started and then the ones appended while it drained,
\* and each pop notifies the front of the queue and nothing else.
C12_NotifiedExactlyOnce ==
    /\ [](\A t \in TriggerIds :
            notified[t] + Count(EXT_EVENT_QUEUE, t) = (IF t < next_trigger THEN 1 ELSE 0))
    /\ []((last.handler = "idle" /\ last.event = "process_update")
            => /\ IsPrefix(idle_pass.queued, idle_pass.notified)
               /\ \A i \in 1..Len(idle_pass.notified) :
                     Count(idle_pass.notified, idle_pass.notified[i]) = 1
               /\ EXT_EVENT_QUEUE = <<>>)
    /\ [][(last'.handler = "idle" /\ last'.event = "notify")
            => /\ EXT_EVENT_QUEUE # <<>>
               /\ calls' = <<Call("notify", 0, Head(EXT_EVENT_QUEUE))>>
               /\ EXT_EVENT_QUEUE' = Tail(EXT_EVENT_QUEUE)]_vars

\* C12 witness: a completed idle pass started with one notification queued,
\* notified it, and then notified one a producer appended during the drain.
C12_Witness ==
    /\ last.handler = "idle"
    /\ last.event = "process_update"
    /\ Len(idle_pass.queued) = 1
    /\ Len(idle_pass.notified) = 2
    /\ notified = [t \in TriggerIds |-> IF t <= 2 THEN 1 ELSE 0]

\* C18: the step that ends an idle pass finds the notification queue empty and
\* calls the post-update pass exactly once on every entry of the registry and
\* makes no other call; a timer-fire pass in which at least one timer fired
\* calls it exactly once on every entry, after the last timer action, and a
\* pass in which no timer was due calls it on no window.
C18_PostUpdateOrdering ==
    /\ [][(last'.handler = "idle" /\ last'.event = "process_update")
            => /\ EXT_EVENT_QUEUE = <<>>
               /\ Len(calls') = Cardinality(DOMAIN window_handles)
               /\ \A w \in DOMAIN window_handles :
                     Count(calls', Call("process_update", w, 0)) = 1]_vars
    /\ [][(last'.handler = "idle" /\ last'.event = "notify")
            => ~HasCall(calls', "process_update")]_vars
    /\ [][last'.handler = "handle_timer"
            => IF HasCall(calls', "action")
               THEN /\ \A w \in DOMAIN window_handles :
                          Count(calls', Call("process_update", w, 0)) = 1
                    /\ CallsOf(calls', "process_update") = Cardinality(DOMAIN window_handles)
                    /\ \A i, j \in 1..Len(calls') :
                          (calls'[i].op = "action" /\ calls'[j].op = "process_update")
                            => i < j
               ELSE /\ ~HasCall(calls', "process_update")
                    /\ due_tokens(timers, now) = {}]_vars

\* C18 witness: after a timer-fire pass in which a timer fired, an idle pass
\* that notified a queued notification ended with the post-update pass on two
\* live windows.
C18_Witness ==
    /\ last.handler = "idle"
    /\ last.event = "process_update"
    /\ Len(idle_pass.notified) >= 1
    /\ CallsOf(calls, "process_update") = 2
    /\ \E i \in EventIds : invoked[i] = 1

\* C19 (as claimed): every idle pass runs to completion, whatever the
\* producers appending to the notification queue do: a coordinator inside the
\* drain loop of idle eventually leaves it.
C19_IdlePassTerminates == (pc = "idle") ~> (pc = "loop")

\* C15: the size a new window is requested with, for a configured size (w, h),
\* is (800, 600) when w = 0 or h = 0 and (w, h) otherwise; (0, 600) gives
\* (800, 600) and (1024, 768) stays (1024, 768).
C15_EffectiveSize ==
    (window_builder # NoBuilder /\ config # None /\ config[1].size # None)
      => LET size == config[1].size[1]
             requested == window_builder[1].inner_size
         IN /\ requested = Some(IF size[1] = 0 \/ size[2] = 0 THEN <<800, 600>> ELSE size)
            /\ size = <<0, 600>> => requested = Some(<<800, 600>>)
            /\ size = <<1024, 768>> => requested = Some(<<1024, 768>>)

\* C15 witness: a window configured with size (0, 600) was requested with
\* (800, 600).
C15_Witness ==
    /\ window_builder # NoBuilder
    /\ config # None
    /\ config[1].size = Some(<<0, 600>>)
    /\ window_builder[1].inner_size = Some(<<800, 600>>)

====
